---- MODULE Spec2Model ----
(***************************************************************************)
(* Model of tasks.py, the Invoke task file of the TestRift NUnit plugin:   *)
(* the six tasks (build, clean, pack, publish, restore_local, run_example),*)
(* the namespace ns built at module load, and one top-level invocation of  *)
(* a task through the namespace: lookup by name, expansion of the          *)
(* prerequisites declared with @task(pre=[...]), and the task bodies with  *)
(* their c.cd scopes, c.run commands and file-system effects.              *)
(*                                                                         *)
(* Names are sequences of tokens ("restore", "_", "local"; "test", ".",    *)
(* "unit"), so that name transformation and the split of a dotted path are *)
(* computed.  File names are sequences of characters, so that the glob     *)
(* pattern and the suffix test are computed.                               *)
(***************************************************************************)
EXTENDS Integers, Sequences, FiniteSets, TLC

None == "<None>"

(* Python truthiness of an optional string: None and "" are falsy. *)
Falsy(v) == v = None \/ v = ""

----------------------------------------------------------------------------
(* Tasks.  A task object is the module that defines it and its function    *)
(* name.                                                                   *)

Task(mod, name) == [mod |-> mod, name |-> name]

build == Task("tasks", <<"build">>)

clean == Task("tasks", <<"clean">>)

pack == Task("tasks", <<"pack">>)

publish == Task("tasks", <<"publish">>)

restore_local == Task("tasks", <<"restore", "_", "local">>)

run_example == Task("tasks", <<"run", "_", "example">>)

(* The tasks of tests/tasks.py, loaded as test_tasks_module.  One of them  *)
(* shares its function name with a top-level task.                         *)
test_unit == Task("tests", <<"unit">>)

test_build == Task("tests", <<"build">>)

test_tasks_module == <<test_unit, test_build>>

TopTasks == {build, clean, pack, publish, restore_local, run_example}

AllTasks == TopTasks \cup {test_tasks_module[i] : i \in 1..Len(test_tasks_module)}

----------------------------------------------------------------------------
(* Collections (the namespace registry).                                   *)

NoTask == Task("", <<>>)

EmptyMap == [x \in {} |-> x]

(* Collection(name): an empty collection; default is the name of the       *)
(* default task, <<>> when there is none.                                  *)
Collection(name) ==
    [name |-> name, tasks |-> EmptyMap, collections |-> EmptyMap, default |-> <<>>]

(* Collection.transform: underscores become dashes, except a leading or    *)
(* trailing one and one next to a dot.                                     *)
transform(name) ==
    [i \in 1..Len(name) |->
        IF /\ i \notin {1, Len(name)}
           /\ name[i] = "_"
           /\ name[i - 1] # "."
           /\ name[i + 1] # "."
        THEN "-"
        ELSE name[i]]

(* Variant: add_task without the test for a sub-collection of that name. *)
add_task_conflict_off(coll, task) == FALSE

(* Collection.add_task(task): the task is stored under its transformed     *)
(* function name; a sub-collection of that name is a name conflict.        *)
add_task_conflict(coll, task) == transform(task.name) \in DOMAIN coll.collections

add_task(coll, task) ==
    [coll EXCEPT !.tasks = (transform(task.name) :> task) @@ coll.tasks]

(* Collection.add_collection(sub): stored under the sub-collection's       *)
(* transformed name; a task of that name is a name conflict.               *)
add_collection_conflict(coll, sub) == transform(sub.name) \in DOMAIN coll.tasks

add_collection(coll, sub) ==
    [coll EXCEPT !.collections = (transform(sub.name) :> sub) @@ coll.collections]

RECURSIVE add_tasks(_, _)
add_tasks(coll, tasks) ==
    IF tasks = <<>> THEN coll
    ELSE add_tasks(add_task(coll, Head(tasks)), Tail(tasks))

(* Collection.from_module(module, name): a collection of that name holding *)
(* every task of the module.                                               *)
from_module(module, name) == add_tasks(Collection(name), module)

(* Index of the first "." token of a path, 0 when there is none. *)
FirstDot(path) ==
    IF \E i \in 1..Len(path) : path[i] = "."
    THEN CHOOSE i \in 1..Len(path) : path[i] = "." /\ \A j \in 1..(i - 1) : path[j] # "."
    ELSE 0

Found(task) == [ok |-> TRUE, task |-> task, err |-> ""]

NotFound(err) == [ok |-> FALSE, task |-> NoTask, err |-> err]

(* Variant: a name that is no task of the collection is searched in its    *)
(* sub-collections.                                                        *)
lookup_searching(coll, path) ==
    LET name == transform(path)
        dot  == FirstDot(name)
        head == SubSeq(name, 1, dot - 1)
        rest == SubSeq(name, dot + 1, Len(name))
        subs == {c \in DOMAIN coll.collections : name \in DOMAIN coll.collections[c].tasks}
    IN  IF path = <<>> THEN NotFound("ValueError")
        ELSE IF dot # 0
        THEN IF head \in DOMAIN coll.collections
                /\ rest \in DOMAIN coll.collections[head].tasks
             THEN Found(coll.collections[head].tasks[rest])
             ELSE NotFound("KeyError")
        ELSE IF name \in DOMAIN coll.tasks
        THEN Found(coll.tasks[name])
        ELSE IF subs # {}
        THEN Found(coll.collections[CHOOSE c \in subs : TRUE].tasks[name])
        ELSE NotFound("KeyError")

(* Collection.__getitem__(name): the default task for an empty name, the   *)
(* sub-collection named by the part before the first dot for a dotted      *)
(* name, a sub-collection's default task for a sub-collection's name, and  *)
(* otherwise the task stored under the transformed name.                   *)
RECURSIVE lookup(_, _)
lookup(coll, path) ==
    LET name == transform(path)
        dot  == FirstDot(name)
        head == SubSeq(name, 1, dot - 1)
        rest == SubSeq(name, dot + 1, Len(name))
    IN  IF path = <<>>
        THEN IF coll.default = <<>> THEN NotFound("ValueError")
             ELSE lookup(coll, coll.default)
        ELSE IF dot # 0
        THEN IF head \in DOMAIN coll.collections
             THEN lookup(coll.collections[head], rest)
             ELSE NotFound("KeyError")
        ELSE IF name \in DOMAIN coll.collections
        THEN lookup(coll.collections[name], <<>>)
        ELSE IF name \in DOMAIN coll.tasks
        THEN Found(coll.tasks[name])
        ELSE NotFound("KeyError")

(* The statements of the namespace configuration, in program order. *)
NsTasks == <<build, clean, pack, publish, restore_local, run_example>>

(* Variant: the sub-collection added under another name. *)
NsCollectionName_tests == <<"tests">>

NsCollectionName == <<"test">>

NsCollection == from_module(test_tasks_module, NsCollectionName)

----------------------------------------------------------------------------
(* Prerequisites and the executor's call list.                             *)

(* Variant: publish declared without its prerequisite. *)
pre_publish_bare(t) ==
    IF t = pack THEN <<clean>>
    ELSE <<>>

(* Variant: pack declared without its prerequisite. *)
pre_pack_bare(t) ==
    IF t = publish THEN <<pack>>
    ELSE <<>>

(* Variant: clean declared with publish as its prerequisite. *)
pre_cyclic(t) ==
    IF t = pack THEN <<clean>>
    ELSE IF t = publish THEN <<pack>>
    ELSE IF t = clean THEN <<publish>>
    ELSE <<>>

(* The prerequisites declared by the @task decorators, in declared order. *)
pre(t) ==
    IF t = pack THEN <<clean>>
    ELSE IF t = publish THEN <<pack>>
    ELSE <<>>

(* A call is a task with the keyword arguments given to it. *)
Call(t, kwargs) == [task |-> t, kwargs |-> kwargs]

(* A prerequisite is called with no arguments. *)
PreCalls(t) == [i \in 1..Len(pre(t)) |-> Call(pre(t)[i], EmptyMap)]

(* Executor.expand_calls: depth-first, the prerequisites of a call before  *)
(* the call itself.                                                        *)
RECURSIVE expand_calls(_)
expand_calls(calls) ==
    IF calls = <<>> THEN <<>>
    ELSE expand_calls(PreCalls(Head(calls).task))
            \o <<Head(calls)>>
            \o expand_calls(Tail(calls))

(* Executor.dedupe: a call equal to an earlier one of the list is dropped. *)
RECURSIVE dedupe(_)
dedupe(calls) ==
    IF calls = <<>> THEN <<>>
    ELSE LET front == dedupe(SubSeq(calls, 1, Len(calls) - 1))
             last  == calls[Len(calls)]
         IN  IF \E i \in 1..Len(front) : front[i] = last
             THEN front
             ELSE Append(front, last)

(* A declared parameter takes the caller's value, else its default. *)
Param(kwargs, name, default) ==
    IF name \in DOMAIN kwargs THEN kwargs[name] ELSE default

----------------------------------------------------------------------------
(* Paths (sequences of segments) and the working-directory stack.          *)

repo_dir == <<"/", "repo">>

realtimelog_dir == repo_dir \o <<"src", "TestRift.NUnit">>

example_dir == repo_dir \o <<"Example">>

proj_dir == repo_dir \o <<"src", "TestRift.NUnit">>

server_nuget_dir ==
    SubSeq(repo_dir, 1, Len(repo_dir) - 1)
        \o <<"testrift-server", "nuget", "TestRift.Server", "bin", "Release">>

IsPrefix(p, q) == Len(p) <= Len(q) /\ SubSeq(q, 1, Len(p)) = p

IsAbs(p) == p # <<>> /\ p[1] \in {"/", "~"}

RECURSIVE JoinPaths(_)
JoinPaths(paths) ==
    IF paths = <<>> THEN <<>> ELSE Head(paths) \o JoinPaths(Tail(paths))

(* Context.cwd: the stacked directories joined from the last absolute one  *)
(* on; empty when no scope is open.                                        *)
cwd(command_cwds) ==
    IF command_cwds = <<>> THEN <<>>
    ELSE LET abs == {i \in 1..Len(command_cwds) : IsAbs(command_cwds[i])}
             from == IF abs = {} THEN 1
                     ELSE CHOOSE i \in abs : \A j \in abs : j <= i
         IN  JoinPaths(SubSeq(command_cwds, from, Len(command_cwds)))

(* Variant: the scope's directory is popped only on a normal exit. *)
cd_exit_unprotected(command_cwds, ok) ==
    IF ok THEN SubSeq(command_cwds, 1, Len(command_cwds) - 1) ELSE command_cwds

(* Context.cd: entering a scope pushes its directory; leaving it, with or  *)
(* without an exception (ok), pops it.                                     *)
cd_enter(command_cwds, path) == Append(command_cwds, path)

cd_exit(command_cwds, ok) == SubSeq(command_cwds, 1, Len(command_cwds) - 1)

----------------------------------------------------------------------------
(* Files.  A file name is a sequence of characters.                        *)

MaxFiles == 2

FooNupkg == <<"F", ".", "n", "u", "p", "k", "g">>

FooSnupkg == <<"F", ".", "s", "n", "u", "p", "k", "g">>

BarNupkg == <<"B", ".", "n", "u", "p", "k", "g">>

PlainNupkg == <<"n", "u", "p", "k", "g">>

FileNames == {FooNupkg, FooSnupkg, BarNupkg, PlainNupkg}

(* The sets of files one 'dotnet pack' may leave in the output directory. *)
PackOutputs == {S \in SUBSET FileNames : Cardinality(S) <= MaxFiles}

(* Variant: the pattern "*" alone. *)
glob_any(files, suffix) == files

(* str.endswith *)
endswith(name, suffix) ==
    /\ Len(suffix) <= Len(name)
    /\ SubSeq(name, Len(name) - Len(suffix) + 1, Len(name)) = suffix

(* Path.glob with the pattern "*" + suffix over the entries of a           *)
(* directory: the star matches any run of characters, the rest literally.  *)
glob(files, suffix) == {f \in files : endswith(f, suffix)}

NupkgSuffix == <<".", "n", "u", "p", "k", "g">>

SnupkgSuffix == <<".", "s", "n", "u", "p", "k", "g">>

(* The artifacts entry of the repository: absent, a regular file, or a     *)
(* directory with its files.                                               *)
Absent == [kind |-> "absent", files |-> {}]

RegularFile == [kind |-> "file", files |-> {}]

Dir(files) == [kind |-> "dir", files |-> files]

(* shutil.rmtree(p, ignore_errors=True) on the artifacts entry: a          *)
(* directory is removed with its contents; on a regular file the call      *)
(* fails and the error is ignored.                                         *)
rmtree_artifacts(a) == IF a.kind = "dir" THEN Absent ELSE a

(* Entries under the repository root that are named bin or obj. *)
Entry(path, isdir) == [path |-> path, dir |-> isdir]

ExampleObj == Entry(example_dir \o <<"obj">>, TRUE)

ExampleObjBin == Entry(example_dir \o <<"obj", "bin">>, TRUE)

ToolsBin == Entry(repo_dir \o <<"tools", "bin">>, FALSE)

TreeEntries == {ExampleObj, ExampleObjBin, ToolsBin}

(* Path.rglob(name): every entry of that name below the root. *)
rglob(tree, name) == {e \in tree : e.path[Len(e.path)] = name}

(* The loop "for p in rglob(name): if p.is_dir(): rmtree(p)": every        *)
(* directory of that name goes, with all below it.                         *)
remove_named(tree, name) ==
    {e \in tree :
        ~ \E p \in rglob(tree, name) : p.dir /\ IsPrefix(p.path, e.path)}

----------------------------------------------------------------------------
(* The process environment.                                                *)

getenv(environ, key) == IF key \in DOMAIN environ THEN environ[key] ELSE None

(* The environment a command runs in: the overlay on top of the ambient    *)
(* environment.                                                            *)
command_env(environ, env) == env @@ environ

(* Variant: the overlay is written into the ambient environment. *)
environ_after_run_leaking(environ, env) == env @@ environ

(* The ambient environment after a command has run with an overlay. *)
environ_after_run(environ, env) == environ

Environs ==
    {k @@ d :
        k \in {EmptyMap, "NUGET_API_KEY" :> "", "NUGET_API_KEY" :> "envkey"},
        d \in {EmptyMap, "TEST_DUT_NAME" :> "ambient"}}

----------------------------------------------------------------------------
(* State.                                                                  *)

VARIABLES
    pc,             \* "load", "idle", "run", "done" or "failed"
    nsStep,         \* namespace statements executed so far
    ns,             \* the namespace collection
    environ,        \* os.environ
    artifacts,      \* the artifacts entry of the repository
    tree,           \* the entries named bin or obj under the repository
    server_pkg,     \* whether server_nuget_dir exists
    request,        \* the requested name, its task and arguments
    calls,          \* the executor's call list
    idx,            \* index of the running call
    step,           \* position inside the running body
    command_cwds,   \* the context's stack of c.cd directories
    api_key,        \* publish's local api_key
    pending,        \* publish's glob results not yet visited
    log,            \* the commands spawned, in order
    started,        \* the tasks whose bodies have started, in order
    finished,       \* the tasks whose bodies have returned, in order
    failure         \* the exception that ended the invocation

vars ==
    <<pc, nsStep, ns, environ, artifacts, tree, server_pkg, request, calls, idx,
      step, command_cwds, api_key, pending, log, started, finished, failure>>

NoFailure == [kind |-> "", by |-> NoTask, cmd |-> ""]

NoRequest == [name |-> <<>>, task |-> NoTask, kwargs |-> EmptyMap]

ExitCodes == {0, 1}

(* The arguments an invocation may give to a task. *)
KwargsOf(t) ==
    IF t = pack THEN {EmptyMap, "configuration" :> "Debug"}
    ELSE IF t = publish
    THEN {k @@ s :
            k \in {EmptyMap, "api_key" :> "", "api_key" :> "argkey"},
            s \in {EmptyMap, "source" :> "https://feed2"}}
    ELSE IF t = run_example
    THEN {f @@ u :
            f \in {EmptyMap, "filter" :> "", "filter" :> "Smoke"},
            u \in {EmptyMap, "server_url" :> "http://srv:1"}}
    ELSE {EmptyMap}

(* The names an invocation may ask for. *)
RequestNames ==
    {<<"build">>, <<"clean">>, <<"pack">>, <<"publish">>,
     <<"restore", "_", "local">>, <<"restore", "-", "local">>,
     <<"run", "_", "example">>, <<"run", "-", "example">>,
     <<"test", ".", "unit">>, <<"test", ".", "build">>,
     <<"unit">>, <<"test">>, <<"tes">>, <<"te", ".", "unit">>, <<"nosuch">>}

Init ==
    /\ pc = "load"
    /\ nsStep = 0
    /\ ns = Collection(<<>>)
    /\ environ \in Environs
    /\ artifacts \in {Absent, RegularFile, Dir({}), Dir({FooNupkg})}
    /\ tree \in {t \in SUBSET TreeEntries : ExampleObjBin \in t => ExampleObj \in t}
    /\ server_pkg \in BOOLEAN
    /\ request = NoRequest
    /\ calls = <<>>
    /\ idx = 0
    /\ step = 0
    /\ command_cwds = <<>>
    /\ api_key = None
    /\ pending = {}
    /\ log = <<>>
    /\ started = <<>>
    /\ finished = <<>>
    /\ failure = NoFailure

----------------------------------------------------------------------------
(* Module load: the namespace configuration.                               *)

Exception(kind, t, cmd) == [kind |-> kind, by |-> t, cmd |-> cmd]

runVars ==
    <<environ, artifacts, tree, server_pkg, request, calls, idx, step,
      command_cwds, api_key, pending, log, started, finished>>

(* ns.add_task(build) ... ns.add_task(run_example) *)
AddTask ==
    /\ pc = "load"
    /\ nsStep < Len(NsTasks)
    /\ LET t == NsTasks[nsStep + 1]
       IN  IF add_task_conflict(ns, t)
           THEN /\ pc' = "failed"
                /\ failure' = Exception("ValueError", NoTask, "add_task")
                /\ UNCHANGED <<ns, nsStep>>
           ELSE /\ ns' = add_task(ns, t)
                /\ nsStep' = nsStep + 1
                /\ UNCHANGED <<pc, failure>>
    /\ UNCHANGED runVars

(* ns.add_collection(Collection.from_module(test_tasks_module, name='test')) *)
AddCollection ==
    /\ pc = "load"
    /\ nsStep = Len(NsTasks)
    /\ IF add_collection_conflict(ns, NsCollection)
       THEN /\ pc' = "failed"
            /\ failure' = Exception("ValueError", NoTask, "add_collection")
            /\ UNCHANGED <<ns, nsStep>>
       ELSE /\ ns' = add_collection(ns, NsCollection)
            /\ nsStep' = nsStep + 1
            /\ pc' = "idle"
            /\ UNCHANGED failure
    /\ UNCHANGED runVars

----------------------------------------------------------------------------
(* One top-level invocation: lookup, then the expanded call list.          *)

Invoke ==
    /\ pc = "idle"
    /\ \E name \in RequestNames :
        LET r == lookup(ns, name)
        IN  IF ~ r.ok
            THEN /\ pc' = "failed"
                 /\ failure' = Exception(r.err, NoTask, "lookup")
                 /\ request' = [name |-> name, task |-> NoTask, kwargs |-> EmptyMap]
                 /\ UNCHANGED <<calls, idx>>
            ELSE \E kwargs \in KwargsOf(r.task) :
                 /\ pc' = "run"
                 /\ request' = [name |-> name, task |-> r.task, kwargs |-> kwargs]
                 /\ calls' = dedupe(expand_calls(<<Call(r.task, kwargs)>>))
                 /\ idx' = 1
                 /\ UNCHANGED failure
    /\ UNCHANGED <<nsStep, ns, environ, artifacts, tree, server_pkg, step,
                   command_cwds, api_key, pending, log, started, finished>>

Current == calls[idx]

Running(t, k) == pc = "run" /\ Current.task = t /\ step = k

(* The body of the running call starts. *)
Begin(t) == started' = Append(started, t)

(* The body of the running call returns: the executor goes on to the next  *)
(* call, or is done.                                                       *)
Complete(t) ==
    /\ finished' = Append(finished, t)
    /\ step' = 0
    /\ IF idx = Len(calls)
       THEN pc' = "done" /\ idx' = idx
       ELSE pc' = "run" /\ idx' = idx + 1
    /\ UNCHANGED failure

(* The body goes on to its next statement. *)
Continue(k) ==
    /\ step' = k
    /\ UNCHANGED <<pc, idx, finished, failure>>

(* An exception leaves the body and the executor. *)
Raise(kind, t, cmd) ==
    /\ pc' = "failed"
    /\ failure' = Exception(kind, t, cmd)
    /\ UNCHANGED <<idx, step, finished>>

(* c.run(cmd, env=env): one process, in the context's working directory    *)
(* and with the overlay on top of the ambient environment.                 *)
Command(t, prog, args, dir, env, exit) ==
    [by |-> t, prog |-> prog, args |-> args, cwd |-> dir,
     env |-> command_env(environ, env), overlay |-> env, exit |-> exit]

(* with c.cd(path): c.run(...) *)
Scoped(path, t, prog, args, env, exit) ==
    LET inside == cd_enter(command_cwds, path)
    IN  /\ log' = Append(log, Command(t, prog, args, cwd(inside), env, exit))
        /\ environ' = environ_after_run(environ, env)
        /\ command_cwds' = cd_exit(inside, exit = 0)

(* c.run(...) outside any scope of the body *)
Unscoped(t, prog, args, env, exit) ==
    /\ log' = Append(log, Command(t, prog, args, cwd(command_cwds), env, exit))
    /\ environ' = environ_after_run(environ, env)
    /\ UNCHANGED command_cwds

NoCommand == UNCHANGED <<log, environ, command_cwds>>

(* Variant: the commands are run with warn=True. *)
run_warns(exit) == FALSE

(* c.run without warn=True raises UnexpectedExit on a non-zero exit code. *)
run_raises(exit) == exit # 0

----------------------------------------------------------------------------
(* The task bodies.                                                        *)

nsVars == <<nsStep, ns>>

(* build, first scope: the library *)
BuildLibrary ==
    /\ Running(build, 0)
    /\ Begin(build)
    /\ \E exit \in ExitCodes :
        /\ Scoped(realtimelog_dir, build, "dotnet build", EmptyMap, EmptyMap, exit)
        /\ IF run_raises(exit)
           THEN Raise("UnexpectedExit", build, "dotnet build")
           ELSE Continue(1)
    /\ UNCHANGED <<nsVars, artifacts, tree, server_pkg, request, calls, api_key, pending>>

(* build, second scope: the Example tests *)
BuildExample ==
    /\ Running(build, 1)
    /\ \E exit \in ExitCodes :
        /\ Scoped(example_dir, build, "dotnet build", EmptyMap, EmptyMap, exit)
        /\ IF run_raises(exit)
           THEN Raise("UnexpectedExit", build, "dotnet build")
           ELSE Complete(build)
    /\ UNCHANGED <<nsVars, artifacts, tree, server_pkg, request, calls, api_key,
                   pending, started>>

(* The file system after clean's body. *)
(* Variant: only the first of clean's two loops. *)
clean_tree_bin_only(t) == remove_named(t, "bin")

clean_tree(t) == remove_named(remove_named(t, "bin"), "obj")

clean_artifacts(a) == IF a.kind # "absent" THEN rmtree_artifacts(a) ELSE a

CleanBody ==
    /\ Running(clean, 0)
    /\ Begin(clean)
    /\ tree' = clean_tree(tree)
    /\ artifacts' = clean_artifacts(artifacts)
    /\ NoCommand
    /\ Complete(clean)
    /\ UNCHANGED <<nsVars, server_pkg, request, calls, api_key, pending>>

(* out_dir.mkdir(exist_ok=True): raises when the entry is a regular file. *)
mkdir_fails(a) == a.kind = "file"

(* Variant: the output directory is not created. *)
mkdir_omitted(a) == a

mkdir(a) == IF a.kind = "absent" THEN Dir({}) ELSE a

(* 'dotnet pack -o artifacts': the package files it produced are added to  *)
(* the output directory.                                                   *)
pack_writes(a, out) == IF a.kind = "dir" THEN Dir(a.files \cup out) ELSE a

(* Variant: another default for pack's configuration. *)
pack_configuration_debug(kwargs) == Param(kwargs, "configuration", "Debug")

pack_configuration(kwargs) == Param(kwargs, "configuration", "Release")

PackBody ==
    /\ Running(pack, 0)
    /\ Begin(pack)
    /\ IF mkdir_fails(artifacts)
       THEN /\ Raise("FileExistsError", pack, "mkdir")
            /\ NoCommand
            /\ UNCHANGED artifacts
       ELSE LET args == "configuration" :> pack_configuration(Current.kwargs)
            IN  \E exit \in ExitCodes :
                \E out \in IF exit = 0 THEN PackOutputs ELSE {{}} :
                   /\ Scoped(proj_dir, pack, "dotnet pack", args, EmptyMap, exit)
                   /\ artifacts' = pack_writes(mkdir(artifacts), out)
                   /\ IF run_raises(exit)
                      THEN Raise("UnexpectedExit", pack, "dotnet pack")
                      ELSE Complete(pack)
    /\ UNCHANGED <<nsVars, tree, server_pkg, request, calls, api_key, pending>>

publish_source(kwargs) == Param(kwargs, "source", "https://api.nuget.org/v3/index.json")

(* Variant: "if not api_key" in place of "if api_key is None". *)
resolve_api_key_falsy(kwargs, env) ==
    IF Falsy(Param(kwargs, "api_key", None))
    THEN getenv(env, "NUGET_API_KEY")
    ELSE Param(kwargs, "api_key", None)

(* publish's api_key after the two lines that resolve it. *)
resolve_api_key(kwargs, env) ==
    IF Param(kwargs, "api_key", None) = None
    THEN getenv(env, "NUGET_API_KEY")
    ELSE Param(kwargs, "api_key", None)

(* Variant: the credential check left out. *)
missing_api_key_unchecked(key) == FALSE

(* "if not api_key: raise RuntimeError(...)" *)
missing_api_key(key) == Falsy(key)

(* artifacts_dir.glob("*.nupkg") *)
publish_glob(a) == glob(IF a.kind = "dir" THEN a.files ELSE {}, NupkgSuffix)

(* "if pkg.name.endswith('.snupkg'): continue" *)
publish_skips(pkg) == endswith(pkg, SnupkgSuffix)

(* publish up to the loop: the credential, then the glob *)
PublishBegin ==
    /\ Running(publish, 0)
    /\ Begin(publish)
    /\ api_key' = resolve_api_key(Current.kwargs, environ)
    /\ NoCommand
    /\ IF missing_api_key(api_key')
       THEN /\ Raise("RuntimeError", publish, "Missing NuGet API key")
            /\ UNCHANGED pending
       ELSE /\ pending' = publish_glob(artifacts)
            /\ IF pending' = {} THEN Complete(publish) ELSE Continue(1)
    /\ UNCHANGED <<nsVars, artifacts, tree, server_pkg, request, calls>>

(* one iteration of publish's loop, in the order the glob yields *)
PublishPush ==
    /\ Running(publish, 1)
    /\ \E pkg \in pending :
        LET rest == pending \ {pkg}
            args == ("pkg" :> pkg) @@ ("api_key" :> api_key)
                        @@ ("source" :> publish_source(Current.kwargs))
        IN  /\ pending' = rest
            /\ IF publish_skips(pkg)
               THEN /\ NoCommand
                    /\ IF rest = {} THEN Complete(publish) ELSE Continue(1)
               ELSE \E exit \in ExitCodes :
                    /\ Unscoped(publish, "dotnet nuget push", args, EmptyMap, exit)
                    /\ IF run_raises(exit)
                       THEN Raise("UnexpectedExit", publish, "dotnet nuget push")
                       ELSE IF rest = {} THEN Complete(publish) ELSE Continue(1)
    /\ UNCHANGED <<nsVars, artifacts, tree, server_pkg, request, calls, api_key, started>>

projects ==
    <<repo_dir \o <<"Example", "ExampleTests.csproj">>,
      repo_dir \o <<"tests", "TestRift.NUnit.Tests", "TestRift.NUnit.Tests.csproj">>,
      repo_dir \o <<"tests", "TestRift.NUnit.Tests.MaxVersions",
                    "TestRift.NUnit.Tests.MaxVersions.csproj">>,
      repo_dir \o <<"tests", "TestRift.NUnit.Integration.Tests",
                    "TestRift.NUnit.Integration.Tests.csproj">> >>

(* Variant: the loop is entered whether or not the local feed exists. *)
restore_skips_never(exists) == FALSE

(* if not server_nuget_dir.exists(): print(...); return *)
restore_skips(exists) == ~ exists

(* restore_local up to the loop: returns when the local feed is missing *)
RestoreCheck ==
    /\ Running(restore_local, 0)
    /\ Begin(restore_local)
    /\ NoCommand
    /\ IF restore_skips(server_pkg) THEN Complete(restore_local) ELSE Continue(1)
    /\ UNCHANGED <<nsVars, artifacts, tree, server_pkg, request, calls, api_key, pending>>

(* one iteration of restore_local's loop *)
RestoreProject ==
    /\ pc = "run"
    /\ Current.task = restore_local
    /\ step \in 1..Len(projects)
    /\ \E exit \in ExitCodes :
        /\ Unscoped(restore_local, "dotnet restore", "proj" :> projects[step],
                    EmptyMap, exit)
        /\ IF run_raises(exit)
           THEN Raise("UnexpectedExit", restore_local, "dotnet restore")
           ELSE IF step = Len(projects) THEN Complete(restore_local)
                ELSE Continue(step + 1)
    /\ UNCHANGED <<nsVars, artifacts, tree, server_pkg, request, calls, api_key,
                   pending, started>>

(* The overlay run_example passes to its command. *)
run_example_env(kwargs) ==
    ("TEST_LOG_SERVER_URL" :> Param(kwargs, "server_url", "http://localhost:8080"))
        @@ ("TEST_DUT_NAME" :> "INVOKE-TEST")

run_example_args(kwargs) ==
    IF Falsy(Param(kwargs, "filter", None)) THEN EmptyMap
    ELSE "filter" :> Param(kwargs, "filter", None)

RunExample ==
    /\ Running(run_example, 0)
    /\ Begin(run_example)
    /\ \E exit \in ExitCodes :
        /\ Scoped(example_dir, run_example, "dotnet test",
                  run_example_args(Current.kwargs), run_example_env(Current.kwargs), exit)
        /\ IF run_raises(exit)
           THEN Raise("UnexpectedExit", run_example, "dotnet test")
           ELSE Complete(run_example)
    /\ UNCHANGED <<nsVars, artifacts, tree, server_pkg, request, calls, api_key, pending>>

(* The body of a task of the test sub-collection: it returns or raises. *)
TestTaskBody ==
    /\ pc = "run"
    /\ Current.task.mod = "tests"
    /\ step = 0
    /\ Begin(Current.task)
    /\ NoCommand
    /\ \/ Complete(Current.task)
       \/ Raise("Exception", Current.task, "body")
    /\ UNCHANGED <<nsVars, artifacts, tree, server_pkg, request, calls, api_key, pending>>

Next ==
    \/ AddTask
    \/ AddCollection
    \/ Invoke
    \/ BuildLibrary
    \/ BuildExample
    \/ CleanBody
    \/ PackBody
    \/ PublishBegin
    \/ PublishPush
    \/ RestoreCheck
    \/ RestoreProject
    \/ RunExample
    \/ TestTaskBody

Spec == Init /\ [][Next]_vars

(* The executor runs the calls one after another on a single thread and    *)
(* every spawned command returns, so a step that can be taken is taken.    *)
FairSpec == Spec /\ WF_vars(Next)

----------------------------------------------------------------------------
(* The namespace operations on their own: any sequence of add_task and     *)
(* add_collection calls on a collection that starts empty, each call       *)
(* either raising (the caller goes on) or changing the collection.         *)

MaxOps == 3

task_named_test == Task("tasks", <<"test">>)

(* The tasks and the sub-collections the calls are given. *)
RegisterPool == {build, clean, restore_local, test_build, task_named_test}

MergePool ==
    {NsCollection,
     from_module(<<test_unit>>, NsCollectionName),
     from_module(test_tasks_module, <<"build">>)}

RegInit ==
    /\ pc = "api"
    /\ nsStep = 0
    /\ ns = Collection(<<>>)
    /\ environ = EmptyMap
    /\ artifacts = Absent
    /\ tree = {}
    /\ server_pkg = FALSE
    /\ request = NoRequest
    /\ calls = <<>>
    /\ idx = 0
    /\ step = 0
    /\ command_cwds = <<>>
    /\ api_key = None
    /\ pending = {}
    /\ log = <<>>
    /\ started = <<>>
    /\ finished = <<>>
    /\ failure = NoFailure

apiVars ==
    <<pc, environ, artifacts, tree, server_pkg, calls, idx, step, command_cwds,
      api_key, pending, log, started, finished>>

(* ns.add_task(t); request records the name and the task given. *)
Register ==
    /\ pc = "api"
    /\ nsStep < MaxOps
    /\ \E t \in RegisterPool :
        /\ request' = [name |-> transform(t.name), task |-> t, kwargs |-> EmptyMap]
        /\ IF add_task_conflict(ns, t)
           THEN /\ failure' = Exception("ValueError", NoTask, "add_task")
                /\ ns' = ns
           ELSE /\ failure' = NoFailure
                /\ ns' = add_task(ns, t)
    /\ nsStep' = nsStep + 1
    /\ UNCHANGED apiVars

(* ns.add_collection(sub); request records the name given. *)
Merge ==
    /\ pc = "api"
    /\ nsStep < MaxOps
    /\ \E sub \in MergePool :
        /\ request' = [name |-> transform(sub.name), task |-> NoTask, kwargs |-> EmptyMap]
        /\ IF add_collection_conflict(ns, sub)
           THEN /\ failure' = Exception("ValueError", NoTask, "add_collection")
                /\ ns' = ns
           ELSE /\ failure' = NoFailure
                /\ ns' = add_collection(ns, sub)
    /\ nsStep' = nsStep + 1
    /\ UNCHANGED apiVars

RegNext == Register \/ Merge

RegistrySpec == RegInit /\ [][RegNext]_vars

----------------------------------------------------------------------------
(* Properties.                                                             *)

Range(seq) == {seq[i] : i \in 1..Len(seq)}

Terminal == pc \in {"done", "failed"}

Pushes == SelectSeq(log, LAMBDA c : c.prog = "dotnet nuget push")

(* C1: the bodies of a task's prerequisites run in declared order,         *)
(* prerequisites of a prerequisite first, and each has returned before the *)
(* task's body starts; bodies run one at a time; a completed invocation of *)
(* publish has run clean, then pack, then publish, in exactly that order.  *)
C1_PrerequisiteOrder ==
    /\ Len(finished) <= Len(started)
    /\ Len(started) <= Len(finished) + 1
    /\ finished = SubSeq(started, 1, Len(finished))
    /\ \A i \in 1..Len(started) :
        LET ps == pre(started[i])
        IN  \A k \in 1..Len(ps) :
              \E j \in 1..(i - 1) :
                /\ started[j] = ps[k]
                /\ j <= Len(finished)
                /\ \A k2 \in 1..(k - 1) : \E j2 \in 1..(j - 1) : started[j2] = ps[k2]
    /\ (request.task = publish /\ publish \in Range(started))
            => /\ started = <<clean, pack, publish>>
               /\ SubSeq(finished, 1, 2) = <<clean, pack>>
    /\ (request.task = publish /\ pc = "done") => finished = <<clean, pack, publish>>
    /\ (request.task = pack /\ pc = "done") => finished = <<clean, pack>>

C1_Witness ==
    /\ pc = "done"
    /\ request.task = publish
    /\ finished = <<clean, pack, publish>>
    /\ Len(Pushes) = 2

(* C2: when a prerequisite fails, nothing runs after it: the body of the   *)
(* requested task never starts and spawns no command, and the failure that *)
(* ends the invocation is the prerequisite's; when 'dotnet pack' exits     *)
(* non-zero in an invocation of publish, no push is issued and the         *)
(* invocation ends with that command's failure.                            *)
C2_PrerequisiteFailure ==
    /\ \A i \in 1..Len(log) :
        log[i].exit # 0 =>
            /\ i = Len(log)
            /\ pc = "failed"
            /\ failure = Exception("UnexpectedExit", log[i].by, log[i].prog)
            /\ started[Len(started)] = log[i].by
    /\ (pc = "failed" /\ failure.by \notin {NoTask, request.task}) =>
            /\ request.task \notin Range(started)
            /\ started[Len(started)] = failure.by
            /\ failure.by \notin Range(finished)
            /\ \A i \in 1..Len(log) : log[i].by # request.task
    /\ (request.task = publish /\ \E i \in 1..Len(log) :
                log[i].prog = "dotnet pack" /\ log[i].exit # 0) =>
            /\ Pushes = <<>>
            /\ failure = Exception("UnexpectedExit", pack, "dotnet pack")

C2_Witness ==
    /\ pc = "failed"
    /\ request.task = publish
    /\ failure = Exception("UnexpectedExit", pack, "dotnet pack")
    /\ log[Len(log)].exit # 0
    /\ finished = <<clean>>

(* C3: whenever pack's body starts, clean's body is the one that ran just  *)
(* before it and has returned; once pack's body has returned, the          *)
(* artifacts directory exists.                                             *)
C3_PackAfterClean ==
    /\ \A i \in 1..Len(started) :
        started[i] = pack =>
            /\ i > 1
            /\ started[i - 1] = clean
            /\ Len(finished) >= i - 1
            /\ finished[i - 1] = clean
    /\ pack \in Range(finished) => artifacts.kind = "dir"

C3_Witness ==
    /\ pc = "done"
    /\ request.task = pack
    /\ artifacts.kind = "dir"
    /\ finished = <<clean, pack>>

NoExplicitKey == "api_key" \notin DOMAIN request.kwargs

NoEnvKey == "NUGET_API_KEY" \notin DOMAIN environ

MissingCredential == Exception("RuntimeError", publish, "Missing NuGet API key")

(* C4 as stated: an invocation of publish with no explicit api_key and     *)
(* NUGET_API_KEY unset ends with MissingCredential.                        *)
C4_AsStated ==
    (request.task = publish /\ NoExplicitKey /\ NoEnvKey /\ Terminal)
        => failure = MissingCredential

(* C4, amended: an invocation of publish with no explicit api_key and      *)
(* NUGET_API_KEY unset issues no push command and never completes; once    *)
(* publish's body starts it fails with MissingCredential, and the only     *)
(* other way the invocation ends is the failure of the prerequisite pack.  *)
C4_MissingCredential ==
    (request.task = publish /\ NoExplicitKey /\ NoEnvKey) =>
        /\ Pushes = <<>>
        /\ pc # "done"
        /\ publish \in Range(started) => (pc = "failed" /\ failure = MissingCredential)
        /\ pc = "failed" => (failure = MissingCredential \/ failure.by = pack)

C4_Witness ==
    /\ request.task = publish
    /\ NoExplicitKey
    /\ NoEnvKey
    /\ pc = "failed"
    /\ failure = MissingCredential
    /\ artifacts = Dir({FooNupkg, BarNupkg})

Pushed == {Pushes[i].args["pkg"] : i \in 1..Len(Pushes)}

EndsInNupkg(f) ==
    /\ Len(f) >= 6
    /\ SubSeq(f, Len(f) - 5, Len(f)) = <<".", "n", "u", "p", "k", "g">>

(* C5: a publish that completes has issued exactly one push for each file  *)
(* of the artifacts directory whose name ends in .nupkg and none for any   *)
(* other file; with F.nupkg and F.snupkg there, the only push is the one   *)
(* of F.nupkg.                                                             *)
C5_PushesPackages ==
    (request.task = publish /\ pc = "done") =>
        /\ Pushed = {f \in artifacts.files : EndsInNupkg(f)}
        /\ Len(Pushes) = Cardinality(Pushed)
        /\ FooSnupkg \notin Pushed
        /\ artifacts.files = {FooNupkg, FooSnupkg}
                => /\ Len(Pushes) = 1
                   /\ Pushes[1].args["pkg"] = FooNupkg

C5_Witness ==
    /\ request.task = publish
    /\ pc = "done"
    /\ artifacts.files = {FooNupkg, FooSnupkg}
    /\ Len(Pushes) = 1

(* C6: no c.cd scope is open once its statement is left, whether its       *)
(* command succeeded or failed; a command inside a scope runs in the       *)
(* scope's directory and a command outside any scope runs in the ambient   *)
(* directory; build's second command runs in the Example directory, which  *)
(* is not under the library directory.                                     *)
C6_ScopedDirectories ==
    /\ command_cwds = <<>>
    /\ \A i \in 1..Len(log) :
        /\ log[i].prog \in {"dotnet nuget push", "dotnet restore"} => log[i].cwd = <<>>
        /\ log[i].prog = "dotnet pack" => log[i].cwd = proj_dir
        /\ log[i].prog = "dotnet test" => log[i].cwd = example_dir
        /\ (log[i].by = build /\ i = 1) => log[i].cwd = realtimelog_dir
        /\ (log[i].by = build /\ i = 2)
                => /\ log[i].cwd = example_dir
                   /\ ~ IsPrefix(realtimelog_dir, log[i].cwd)

C6_Witness ==
    /\ pc = "failed"
    /\ request.task = publish
    /\ Len(Pushes) = 1
    /\ log[Len(log)].cwd = <<>>
    /\ command_cwds = <<>>

OverlayKeys == {"TEST_LOG_SERVER_URL", "TEST_DUT_NAME"}

C8_CommandEnvironments ==
    \A i \in 1..Len(log) :
        IF log[i].prog = "dotnet test"
        THEN /\ DOMAIN log[i].overlay = OverlayKeys
             /\ log[i].env["TEST_DUT_NAME"] = "INVOKE-TEST"
             /\ log[i].env["TEST_LOG_SERVER_URL"] =
                    (IF "server_url" \in DOMAIN request.kwargs
                     THEN request.kwargs["server_url"]
                     ELSE "http://localhost:8080")
             /\ \A k \in DOMAIN environ \ OverlayKeys : log[i].env[k] = environ[k]
        ELSE /\ log[i].overlay = EmptyMap
             /\ log[i].env = environ
             /\ \A k \in OverlayKeys \ DOMAIN environ : k \notin DOMAIN log[i].env

(* C8: the overlay run_example passes to its command reaches that command  *)
(* only: no step changes the ambient environment, the command of           *)
(* run_example sees the two overlay values on top of the ambient           *)
(* environment, and every command run without an overlay sees exactly the  *)
(* ambient environment.                                                    *)
C8_OverlayIsLocal == [](C8_CommandEnvironments) /\ [][environ' = environ]_vars

C8_Witness ==
    /\ request.task = run_example
    /\ pc = "done"
    /\ "TEST_DUT_NAME" \notin DOMAIN environ
    /\ log[1].env["TEST_DUT_NAME"] = "INVOKE-TEST"

ExplicitKey == IF NoExplicitKey THEN None ELSE request.kwargs["api_key"]

EnvKey == IF NoEnvKey THEN None ELSE environ["NUGET_API_KEY"]

Given(v) == v # None /\ v # ""

(* C9 as stated: publish fails with MissingCredential only when neither an *)
(* explicit key nor the environment variable is present, an empty value    *)
(* counting as not present.                                                *)
C9_AsStated ==
    (request.task = publish /\ failure = MissingCredential)
        => (~ Given(ExplicitKey) /\ ~ Given(EnvKey))

ResolvedKey == IF NoExplicitKey THEN EnvKey ELSE ExplicitKey

(* C9, amended: publish resolves its credential as the explicit api_key    *)
(* when one is given, even an empty one, and otherwise as the value of     *)
(* NUGET_API_KEY; its body fails with MissingCredential exactly when the   *)
(* resolved value is absent or empty, so an explicit empty key fails even  *)
(* when the environment variable is set; in every other case every push    *)
(* command carries the resolved key.                                       *)
C9_CredentialResolution ==
    (request.task = publish /\ publish \in Range(started)) =>
        /\ api_key = ResolvedKey
        /\ (failure = MissingCredential) <=> ~ Given(ResolvedKey)
        /\ \A i \in 1..Len(Pushes) :
            /\ Pushes[i].args["api_key"] = ResolvedKey
            /\ Given(Pushes[i].args["api_key"])

C9_Witness ==
    /\ request.task = publish
    /\ failure = MissingCredential
    /\ ExplicitKey = ""
    /\ EnvKey = "envkey"

Qualified(prefix, name) == prefix \o <<".">> \o name

TopLevelResolves(coll) == \A t \in TopTasks : lookup(coll, t.name) = Found(t)

C10_MergedNamespace ==
    /\ (pc = "load" /\ nsStep = Len(NsTasks)) => TopLevelResolves(ns)
    /\ pc \notin {"load"} =>
        /\ TopLevelResolves(ns)
        /\ \A i \in 1..Len(test_tasks_module) :
            lookup(ns, Qualified(<<"test">>, test_tasks_module[i].name))
                = Found(test_tasks_module[i])
    /\ \A i \in 1..Len(test_tasks_module) :
        request.name = Qualified(<<"test">>, test_tasks_module[i].name) =>
            /\ request.task = test_tasks_module[i]
            /\ calls = <<Call(test_tasks_module[i], EmptyMap)>>
            /\ Range(started) \subseteq {test_tasks_module[i]}
            /\ log = <<>>
            /\ pc = "done" => finished = <<test_tasks_module[i]>>

(* C10: once the sub-collection is merged under 'test', each of its tasks  *)
(* is found under test.<name>, an invocation by that name runs that task's *)
(* body and nothing else, and the six top-level names resolve to the same  *)
(* tasks as before the merge.                                              *)
C10_SubCollection ==
    /\ [](C10_MergedNamespace)
    /\ [][\A t \in TopTasks : lookup(ns', t.name) = lookup(ns, t.name)
            \/ ~ lookup(ns, t.name).ok]_vars

C10_Witness ==
    /\ pc = "done"
    /\ request.name = <<"test", ".", "build">>
    /\ finished = <<test_build>>
    /\ lookup(ns, <<"build">>) = Found(build)

IsRegister == pc = "api" /\ nsStep' = nsStep + 1 /\ request'.task # NoTask

IsMerge == pc = "api" /\ nsStep' = nsStep + 1 /\ request'.task = NoTask

NamesDisjoint == DOMAIN ns.tasks \cap DOMAIN ns.collections = {}

QualifiedName(t) == IF t.mod = "tests" THEN Qualified(<<"test">>, t.name) ELSE t.name

Dashed(name) == [i \in 1..Len(name) |-> IF name[i] = "_" THEN "-" ELSE name[i]]

Requested == request.name # <<>>

(* C12 as stated: a lookup succeeds on an exact match only, so the name    *)
(* that resolved to a task is the only name resolving to it.               *)
C12_AsStated ==
    (Requested /\ request.task # NoTask) =>
        \A n \in RequestNames :
            lookup(ns, n) = Found(request.task) => n = request.name

(* C12, amended: lookup succeeds exactly on the names that equal a         *)
(* registered qualified name once underscores are written as dashes, so    *)
(* restore_local and restore-local both resolve to the same task; every    *)
(* other name, among them a bare task name of the sub-collection, the bare *)
(* prefix 'test' and a partial prefix of a registered name, fails with     *)
(* KeyError or ValueError and runs no task body.                           *)
C12_LookupNames ==
    Requested =>
        /\ IF \E t \in AllTasks : Dashed(QualifiedName(t)) = Dashed(request.name)
           THEN /\ request.task \in AllTasks
                /\ Dashed(QualifiedName(request.task)) = Dashed(request.name)
                /\ failure.cmd # "lookup"
           ELSE /\ request.task = NoTask
                /\ pc = "failed"
                /\ failure.kind \in {"KeyError", "ValueError"}
                /\ failure.cmd = "lookup"
                /\ started = <<>>
                /\ calls = <<>>
                /\ log = <<>>
        /\ request.name \in {<<"unit">>, <<"test">>, <<"tes">>, <<"te", ".", "unit">>}
                => request.task = NoTask

C12_Witness ==
    /\ pc = "failed"
    /\ request.name = <<"unit">>
    /\ failure = Exception("KeyError", NoTask, "lookup")
    /\ started = <<>>
    /\ lookup(ns, <<"test", ".", "unit">>) = Found(test_unit)

Restores == SelectSeq(log, LAMBDA c : c.prog = "dotnet restore")

(* C13: inside a body the first command that exits non-zero is the last    *)
(* command spawned: it ends the invocation, the body does not return, and  *)
(* no command is spawned twice; after a failed library build the Example   *)
(* build is not run, after a failed push no further package is pushed,     *)
(* after a failed restore no further project is restored.                  *)
C13_FirstFailureEndsBody ==
    /\ \A i \in 1..Len(log) :
        log[i].exit # 0 =>
            /\ \A j \in 1..Len(log) : j <= i
            /\ pc = "failed"
            /\ log[i].by \notin Range(finished)
    /\ \A i, j \in 1..Len(log) :
        (log[i].prog = log[j].prog /\ log[i].cwd = log[j].cwd
            /\ log[i].args = log[j].args) => i = j
    /\ (request.task = build /\ Len(log) >= 1 /\ log[1].exit # 0)
            => (Len(log) = 1 /\ log[1].cwd = realtimelog_dir)
    /\ \A i \in 1..Len(Pushes) : Pushes[i].exit # 0 => i = Len(Pushes)
    /\ \A i \in 1..Len(Restores) :
        /\ Restores[i].args["proj"] = projects[i]
        /\ Restores[i].exit # 0 => i = Len(Restores)

C13_Witness ==
    /\ pc = "failed"
    /\ request.task = restore_local
    /\ Len(log) = 2
    /\ log[2].exit # 0
    /\ failure = Exception("UnexpectedExit", restore_local, "dotnet restore")

Packs == SelectSeq(log, LAMBDA c : c.prog = "dotnet pack")

(* C14: every call but the requested one is made with no arguments; in an  *)
(* invocation of publish 'dotnet pack' is built with configuration         *)
(* 'Release' whatever source and api_key publish was given, and a directly *)
(* invoked pack is built with the configuration it was given, 'Release'    *)
(* when none.                                                              *)
C14_PrerequisiteDefaults ==
    /\ \A i \in 1..Len(calls) :
        IF i < Len(calls) THEN calls[i].kwargs = EmptyMap
        ELSE calls[i] = Call(request.task, request.kwargs)
    /\ request.task = publish =>
        \A i \in 1..Len(Packs) : Packs[i].args["configuration"] = "Release"
    /\ request.task = pack =>
        \A i \in 1..Len(Packs) :
            Packs[i].args["configuration"] =
                (IF "configuration" \in DOMAIN request.kwargs
                 THEN request.kwargs["configuration"]
                 ELSE "Release")

C14_Witness ==
    /\ pc = "done"
    /\ request.task = publish
    /\ DOMAIN request.kwargs = {"source", "api_key"}
    /\ Len(Packs) = 1
    /\ Packs[1].args["configuration"] = "Release"

BuildDir(e) == e.dir /\ e.path[Len(e.path)] \in {"bin", "obj"}

CleanReturns == finished' = Append(finished, clean)

RECURSIVE PreClosure(_, _)
PreClosure(S, n) ==
    IF n = 0 THEN S
    ELSE PreClosure(S \cup UNION {Range(pre(t)) : t \in S}, n - 1)

TransitivePre(t) == PreClosure(Range(pre(t)), Cardinality(AllTasks))

Registered ==
    {ns.tasks[n] : n \in DOMAIN ns.tasks}
        \cup UNION {{ns.collections[c].tasks[n] : n \in DOMAIN ns.collections[c].tasks} :
                        c \in DOMAIN ns.collections}

Acyclic == \A t \in Registered : t \notin TransitivePre(t)

(* C16: no task is transitively its own prerequisite, and every invocation *)
(* of one of the six tasks ends completed or failed, given that every      *)
(* command it spawns returns.                                              *)
C16_Terminates ==
    /\ [] Acyclic
    /\ (pc = "run" /\ request.task \in TopTasks) ~> Terminal

C16_Witness ==
    /\ pc = "done"
    /\ request.task = publish
    /\ calls = <<Call(clean, EmptyMap), Call(pack, EmptyMap),
                 Call(publish, request.kwargs)>>
    /\ Len(Pushes) = 2

(* C17: an invocation of publish that fails with MissingCredential has     *)
(* already run the bodies of clean and pack: the build directories are     *)
(* gone, 'dotnet pack' was spawned and returned 0, the artifacts directory *)
(* exists, nothing was pushed, and the state stays so after the failure.   *)
C17_CheckAfterPrerequisites ==
    failure = MissingCredential =>
        /\ pc = "failed"
        /\ started = <<clean, pack, publish>>
        /\ finished = <<clean, pack>>
        /\ Len(log) = 1
        /\ log[1].prog = "dotnet pack"
        /\ log[1].by = pack
        /\ log[1].exit = 0
        /\ artifacts.kind = "dir"
        /\ \A e \in tree : ~ BuildDir(e)
        /\ command_cwds = <<>>

C17_Witness ==
    /\ failure = MissingCredential
    /\ finished = <<clean, pack>>
    /\ artifacts = Dir({FooSnupkg})
    /\ tree = {ToolsBin}
    /\ Len(log) = 1

(* C18 as stated: with the local package directory missing restore_local   *)
(* spawns nothing and completes; with it present the invocation issues     *)
(* one restore for each of the four projects, in listed order.             *)
C18_AsStated ==
    (request.task = restore_local /\ Terminal) =>
        IF ~ server_pkg
        THEN Restores = <<>> /\ pc = "done" /\ failure = NoFailure
        ELSE /\ Len(Restores) = Len(projects)
             /\ \A i \in 1..Len(Restores) : Restores[i].args["proj"] = projects[i]

(* C18, amended: with the directory missing restore_local spawns nothing   *)
(* and completes without a failure; with it present the restores are       *)
(* issued in listed order, each after the previous one returned 0, all     *)
(* four exactly when the task completes, and a restore that exits non-zero *)
(* is the last one and fails the invocation.                               *)
C18_RestoreLocal ==
    request.task = restore_local =>
        /\ log = Restores
        /\ ~ server_pkg =>
            /\ log = <<>>
            /\ pc # "failed"
            /\ failure = NoFailure
        /\ server_pkg =>
            /\ Len(log) <= Len(projects)
            /\ \A i \in 1..Len(log) :
                /\ log[i].args["proj"] = projects[i]
                /\ i < Len(log) => log[i].exit = 0
            /\ pc = "done" =>
                (Len(log) = Len(projects) /\ log[Len(log)].exit = 0)
            /\ pc = "failed" =>
                /\ log # <<>>
                /\ log[Len(log)].exit # 0
                /\ failure = Exception("UnexpectedExit", restore_local, "dotnet restore")

C18_Witness ==
    /\ request.task = restore_local
    /\ server_pkg
    /\ pc = "done"
    /\ Len(Restores) = 4
    /\ finished = <<restore_local>>

====
